---- MODULE Spec2Model ----
(***************************************************************************)
(* Membership lifecycle and payment verification of the gym backend:       *)
(* DatabaseStorage.getMembers (expiry sweep), createPayment, verifyPayment *)
(* and rejectPayment over the members, payments and activities tables, and *)
(* the routes POST /api/payments and POST /api/yape-payment/verify that    *)
(* call createPayment, and POST /api/payments/:id/verify and .../reject.   *)
(* `calls` holds the storage calls in flight when the handlers are run     *)
(* statement by statement; `mem` is the state of a MemStorage given the    *)
(* same calls.                                                             *)
(*                                                                         *)
(* Time is counted in ticks; a calendar day has TicksPerDay ticks.  A JS   *)
(* Date is an instant (ticks since 1970-01-01T00:00Z); a value of a        *)
(* Postgres `date` column is a day number (days since 1970-01-01).         *)
(***************************************************************************)
EXTENDS Integers, Sequences, FiniteSets, TLC

VARIABLES now, tz, members, payments, activities, result, yape, calls, mem

vars == <<now, tz, members, payments, activities, result, yape, calls, mem>>

----------------------------------------------------------------------------
(* Bounds *)

TicksPerDay == 2

NumMembers == 2

MaxPayments == 1

\* how many decisions (verifications and rejections) the activity log may record
MaxDecisions == 2

MaxTicks == 1

\* how many verifyPayment calls are made while others are in flight
MaxCalls == 2

----------------------------------------------------------------------------
(* Values *)

NULL == -1

\* 2024-01-31, the day the clock starts on
StartDay == 19753

\* server time zone offsets (local = UTC + tz), in ticks
TimeZones == {-1, 0, 1}

\* the users table: an administrator and a user without that role
users == 1 :> [role |-> "admin"] @@ 3 :> [role |-> "user"]

membershipPlans ==
  1 :> [id |-> 1, duration |-> 1, durationType |-> "monthly"] @@
  2 :> [id |-> 2, duration |-> 2, durationType |-> "week"] @@
  3 :> [id |-> 3, duration |-> 0, durationType |-> "day"]

MemberIds == 1 .. NumMembers

\* the slots of the verifyPayment calls run statement by statement
CallIds == 1 .. MaxCalls

----------------------------------------------------------------------------
(* Calendar arithmetic of the JS Date object *)

\* day number of the civil date y-m-d (m in 1..12, d may overflow the month)
DaysFromCivil(y, m, d) ==
  LET yy  == IF m <= 2 THEN y - 1 ELSE y
      era == yy \div 400
      yoe == yy - era * 400
      mp  == (m + 9) % 12
      doy == (153 * mp + 2) \div 5 + d - 1
      doe == yoe * 365 + yoe \div 4 - yoe \div 100 + doy
  IN  era * 146097 + doe - 719468

\* civil date [y, m, d] of a day number
CivilFromDays(z) ==
  LET zz  == z + 719468
      era == zz \div 146097
      doe == zz - era * 146097
      yoe == (doe - doe \div 1460 + doe \div 36524 - doe \div 146096) \div 365
      doy == doe - (365 * yoe + yoe \div 4 - yoe \div 100)
      mp  == (5 * doy + 2) \div 153
      d   == doy - (153 * mp + 2) \div 5 + 1
      m   == IF mp < 10 THEN mp + 3 ELSE mp - 9
      y   == yoe + era * 400 + (IF m <= 2 THEN 1 ELSE 0)
  IN  [y |-> y, m |-> m, d |-> d]

\* ECMAScript MakeDay: month0 (0-based) and date may lie outside their ranges
MakeDay(year, month0, date) ==
  LET ym == year + (month0 \div 12)
      mn == month0 % 12
  IN  DaysFromCivil(ym, mn + 1, 1) + date - 1

\* local calendar day and time of day of an instant
LocalDay(t, zone) == (t + zone) \div TicksPerDay

LocalTimeOfDay(t, zone) == (t + zone) % TicksPerDay

\* the instant of a local day and time of day
FromLocal(day, tod, zone) == day * TicksPerDay + tod - zone

\* d.setDate(d.getDate() + n)
SetDate(t, n, zone) ==
  LET c == CivilFromDays(LocalDay(t, zone))
  IN  FromLocal(MakeDay(c.y, c.m - 1, c.d + n), LocalTimeOfDay(t, zone), zone)

\* d.setMonth(d.getMonth() + n)
SetMonth(t, n, zone) ==
  LET c == CivilFromDays(LocalDay(t, zone))
  IN  FromLocal(MakeDay(c.y, c.m - 1 + n, c.d), LocalTimeOfDay(t, zone), zone)

\* d.setFullYear(d.getFullYear() + n)
SetFullYear(t, n, zone) ==
  LET c == CivilFromDays(LocalDay(t, zone))
  IN  FromLocal(MakeDay(c.y + n, c.m - 1, c.d), LocalTimeOfDay(t, zone), zone)

\* d.setHours(0, 0, 0, 0): local midnight of the instant's local day
SetHoursMidnight(t, zone) == FromLocal(LocalDay(t, zone), 0, zone)

\* new Date('YYYY-MM-DD'): a date-only string is parsed as UTC midnight
ParseDate(day) == day * TicksPerDay

\* d.toISOString() written to a `date` column: the UTC calendar day
ToDateColumn(t) == t \div TicksPerDay

\* a member row as MemStorage holds it: the expiry date is a string, written
\* here as the instant new Date() reads from it
MemMember(member) ==
  [member EXCEPT !.expiryDate = IF @ = NULL THEN NULL ELSE ParseDate(@)]

----------------------------------------------------------------------------
(* Initial state: the server starts over an existing database *)

\* no POST /api/yape-payment/verify request is being handled
YapeIdle == [pc |-> "idle", memberId |-> NULL, planId |-> NULL]

\* no getMembers call is in flight
SweepIdle == [pc |-> "idle", membersList |-> <<>>, membersToUpdate |-> <<>>]

\* no verifyPayment call is in flight in a slot
VerifyIdle ==
  [pc |-> "idle", id |-> NULL, adminId |-> NULL, memberId |-> NULL,
   planId |-> NULL, member |-> NULL, base |-> NULL, expiryDate |-> NULL]

\* the verifyPayment call of a slot has ended
VerifyDone == [VerifyIdle EXCEPT !.pc = "done"]

InitStatuses == {"active", "pending", "frozen"}

InitExpiries == {NULL, StartDay - 1, StartDay}

\* the first member is in any of the initial states, the others are pending
\* and have no expiry date
InitMembers ==
  {m \in [MemberIds ->
            [status : InitStatuses, expiryDate : InitExpiries, planId : {NULL}]] :
     /\ m[1].status = "pending" => m[1].expiryDate # StartDay
     /\ m[1].status = "frozen" => m[1].expiryDate = StartDay - 1
     /\ \A id \in MemberIds \ {1} :
          m[id].status = "pending" /\ m[id].expiryDate = NULL}

\* the database and the server as they start
InitDatabase ==
  /\ now = StartDay * TicksPerDay + 1
  /\ tz \in TimeZones
  /\ members \in InitMembers
  /\ payments = <<>>
  /\ activities = <<>>
  /\ result = [op |-> "none", status |-> "ok", value |-> NULL]
  /\ yape = YapeIdle
  /\ calls = [sweep |-> SweepIdle, verify |-> [c \in CallIds |-> VerifyIdle]]

\* the server instantiates no MemStorage
Init ==
  /\ InitDatabase
  /\ mem = [members |-> <<>>, payments |-> <<>>, activities |-> <<>>]

----------------------------------------------------------------------------
(* Activities *)

\* an activity row; its description and timestamp are not modelled
Activity(type, memberId, userId) ==
  [activityType |-> type, memberId |-> memberId, userId |-> userId]

----------------------------------------------------------------------------
(* Table lookups *)

\* the number of activities of a type in the log
Recorded(type) ==
  Cardinality({i \in 1 .. Len(activities) : activities[i].activityType = type})

\* getMember(id): the row, if any
HasMember(id) == id \in DOMAIN members

\* getUser(id)
HasUser(id) == id \in DOMAIN users

\* getMembershipPlan(id)
HasPlan(id) == id \in DOMAIN membershipPlans

\* getPayment(id)
HasPayment(id) == id \in 1 .. Len(payments)

\* the outcome of the last storage call: a value returned by a method,
Returned(op, value) == [op |-> op, status |-> "ok", value |-> value]

\* undefined returned by verifyPayment or rejectPayment,
ReturnedUndefined == [op |-> "", status |-> "undefined", value |-> NULL]

\* or an exception: the database rejected a statement (foreign key violation)
Thrown == [op |-> "", status |-> "error", value |-> NULL]

----------------------------------------------------------------------------
(* The decisions recorded so far *)

Decisions == Recorded("payment_verified") + Recorded("payment_rejected")

----------------------------------------------------------------------------
(* The wall clock advances *)

Tick ==
  /\ now < StartDay * TicksPerDay + 1 + MaxTicks
  /\ now' = now + 1
  /\ UNCHANGED <<tz, members, payments, activities, result>>

----------------------------------------------------------------------------
(* DatabaseStorage.getMembers: list the members, expiring those overdue *)

\* today.setHours(0, 0, 0, 0)
today == SetHoursMidnight(now, tz)

\* a filter that does not look at the status
IsOverdueAnyStatus(member) ==
  /\ member.expiryDate # NULL
  /\ ParseDate(member.expiryDate) < today

\* the filter of membersToUpdate
IsOverdue(member) ==
  /\ member.status = "active"
  /\ member.expiryDate # NULL
  /\ ParseDate(member.expiryDate) < today

membersToUpdate == {id \in DOMAIN members : IsOverdue(members[id])}

\* the orders in which the rows of an unordered select may be visited
Orders(S) ==
  {o \in [1 .. Cardinality(S) -> S] :
     \A i, j \in 1 .. Cardinality(S) : i # j => o[i] # o[j]}

\* the rows as they were read, not patched
membersListAsRead == members

\* the list the method returns: the rows read, patched as they are expired
membersList ==
  [id \in DOMAIN members |->
     IF id \in membersToUpdate
       THEN [members[id] EXCEPT !.status = "expired"]
       ELSE members[id]]

\* the members table after the updates of the loop
SweptMembers ==
  [id \in DOMAIN members |->
     IF id \in membersToUpdate
       THEN [members[id] EXCEPT !.status = "expired"]
       ELSE members[id]]

GetMembers ==
  /\ \E order \in Orders(membersToUpdate) :
       activities' = activities \o
         [i \in 1 .. Cardinality(membersToUpdate) |->
            Activity("membership_expired", order[i], NULL)]
  /\ members' = SweptMembers
  /\ result' = Returned("getMembers", membersList)
  /\ UNCHANGED <<now, tz, payments>>

----------------------------------------------------------------------------
(* DatabaseStorage.updateMember *)

\* an update that leaves the status of a frozen member
UpdatedMembersKeepingFrozen(id, status, planId, expiryDate) ==
  IF HasMember(id)
    THEN [members EXCEPT ![id] =
            [status |-> IF @.status = "frozen" THEN "frozen" ELSE status,
             planId |-> planId, expiryDate |-> expiryDate]]
    ELSE members

\* the members table after update(members).set(memberData).where(id)
UpdatedMembers(id, status, planId, expiryDate) ==
  IF HasMember(id)
    THEN [members EXCEPT ![id] =
            [status |-> status, planId |-> planId, expiryDate |-> expiryDate]]
    ELSE members

\* the activity updateMember records when a row was updated
UpdateMemberActivities(id) ==
  IF HasMember(id) THEN <<Activity("member_updated", id, NULL)>> ELSE <<>>

----------------------------------------------------------------------------
(* DatabaseStorage.verifyPayment *)

\* a not-found branch that records an activity before it returns
PaymentNotFoundLogged ==
  /\ result' = ReturnedUndefined
  /\ activities' = Append(activities, Activity("payment_verified", NULL, NULL))
  /\ UNCHANGED <<now, tz, members, payments>>

\* no payment has the id: the method returns undefined
PaymentNotFound ==
  /\ result' = ReturnedUndefined
  /\ UNCHANGED <<now, tz, members, payments, activities>>

\* the date the extension starts from: the member's expiry, or now if it is
\* absent or already past
VerifyBaseDate(member) ==
  LET currentDate == now
      expiryDate  == IF member.expiryDate # NULL
                       THEN ParseDate(member.expiryDate)
                       ELSE currentDate
  IN  IF expiryDate < currentDate THEN currentDate ELSE expiryDate

\* a switch that takes the duration off the date
VerifyExpiryBackwards(base, plan) ==
  CASE plan.durationType = "day"   -> SetDate(base, 0 - plan.duration, tz)
    [] plan.durationType = "week"  -> SetDate(base, 0 - plan.duration * 7, tz)
    [] plan.durationType = "month" -> SetMonth(base, 0 - plan.duration, tz)
    [] plan.durationType = "year"  -> SetFullYear(base, 0 - plan.duration, tz)
    [] OTHER                       -> base

\* the switch on plan.durationType of verifyPayment
VerifyExpiry(base, plan) ==
  CASE plan.durationType = "day"   -> SetDate(base, plan.duration, tz)
    [] plan.durationType = "week"  -> SetDate(base, plan.duration * 7, tz)
    [] plan.durationType = "month" -> SetMonth(base, plan.duration, tz)
    [] plan.durationType = "year"  -> SetFullYear(base, plan.duration, tz)
    [] OTHER                       -> base

\* a verification that does not record who verified
VerifiedPaymentUnsigned(payment, adminId) ==
  [payment EXCEPT !.status = "verified",
                  !.verifiedAt = now]

\* the payment row after update(payments).set({status: 'verified', ...})
VerifiedPayment(payment, adminId) ==
  [payment EXCEPT !.status = "verified",
                  !.verifiedById = adminId,
                  !.verifiedAt = now]

VerifyPayment(id, adminId) ==
  IF ~HasPayment(id)
    THEN PaymentNotFound
  ELSE IF ~HasUser(adminId)
    \* verified_by_id references users.id: the update is rejected
    THEN /\ result' = Thrown
         /\ UNCHANGED <<now, tz, members, payments, activities>>
  ELSE
    LET payment        == payments[id]
        updatedPayment == VerifiedPayment(payment, adminId)
    IN  /\ payments' = [payments EXCEPT ![id] = updatedPayment]
        /\ IF HasMember(payment.memberId) /\ HasUser(adminId)
                /\ HasPlan(payment.planId)
             THEN
               LET member     == members[payment.memberId]
                   plan       == membershipPlans[payment.planId]
                   expiryDate == VerifyExpiry(VerifyBaseDate(member), plan)
               IN  /\ Decisions < MaxDecisions
                   /\ members' = UpdatedMembers(payment.memberId, "active",
                                   plan.id, ToDateColumn(expiryDate))
                   /\ activities' = activities
                        \o <<Activity("payment_verified", payment.memberId, adminId)>>
                        \o UpdateMemberActivities(payment.memberId)
                        \o <<Activity("membership_activated", payment.memberId, adminId)>>
             ELSE UNCHANGED <<members, activities>>
        /\ result' = Returned("verifyPayment", updatedPayment)
        /\ UNCHANGED <<now, tz>>

----------------------------------------------------------------------------
(* DatabaseStorage.createPayment *)

\* paymentData.status || 'pending'
ResolvedStatusPending(status) == IF status = "" THEN "pending" ELSE status

\* paymentData.status || 'verified' (an absent status is written "")
ResolvedStatus(status) == IF status = "" THEN "verified" ELSE status

\* the row inserted: status, verifiedAt and verifiedById are overridden
paymentWithStatus(paymentData) ==
  LET status == ResolvedStatus(paymentData.status)
  IN  [id           |-> Len(payments) + 1,
       memberId     |-> paymentData.memberId,
       planId       |-> paymentData.planId,
       paymentDate  |-> paymentData.paymentDate,
       status       |-> status,
       notes        |-> NULL,
       verifiedAt   |-> IF status = "verified" THEN now ELSE NULL,
       verifiedById |-> IF status = "verified"
                          THEN paymentData.verifiedById ELSE NULL]

\* a payments table without foreign keys
NoPaymentReferences(row) == TRUE

\* the foreign keys of the payments table hold for the row
PaymentReferencesHold(row) ==
  /\ HasMember(row.memberId)
  /\ HasPlan(row.planId)
  /\ row.verifiedById = NULL \/ HasUser(row.verifiedById)

\* plan.duration && plan.duration > 0 ? plan.duration : 1
CreateDuration(plan) == IF plan.duration > 0 THEN plan.duration ELSE 1

\* the switch on plan.durationType of createPayment, then the padding day
CreateExpiry(paymentDate, plan) ==
  LET duration == CreateDuration(plan)
      added ==
        CASE plan.durationType = "daily"   -> SetDate(paymentDate, duration, tz)
          [] plan.durationType = "weekly"  -> SetDate(paymentDate, duration * 7, tz)
          [] plan.durationType = "monthly" -> SetMonth(paymentDate, duration, tz)
          [] plan.durationType \in {"yearly", "annual"} ->
               SetFullYear(paymentDate, duration, tz)
          [] OTHER                         -> SetDate(paymentDate, duration, tz)
  IN  SetDate(added, 1, tz)

CreatePayment(paymentData) ==
  LET newPayment == paymentWithStatus(paymentData)
      member     == members[newPayment.memberId]
      plan       == membershipPlans[newPayment.planId]
      expiryDate == CreateExpiry(newPayment.paymentDate, plan)
      created    == Activity("payment_created", newPayment.memberId, NULL)
      activated  == Activity("membership_activated", newPayment.memberId,
                             newPayment.verifiedById)
  IN
  /\ Len(payments) < MaxPayments
  /\ IF ~PaymentReferencesHold(newPayment)
       \* the insert is rejected and the method throws
       THEN /\ result' = Thrown
            /\ UNCHANGED <<members, payments, activities>>
       ELSE /\ payments' = Append(payments, newPayment)
            /\ result' = Returned("createPayment", newPayment)
            /\ IF ~(HasMember(newPayment.memberId) /\ HasPlan(newPayment.planId))
                 THEN UNCHANGED <<members, activities>>
                 ELSE IF newPayment.status = "verified"
                   THEN /\ members' = [members EXCEPT ![newPayment.memberId] =
                             [status |-> "active", planId |-> plan.id,
                              expiryDate |-> ToDateColumn(expiryDate)]]
                        /\ activities' = activities \o <<created, activated>>
                   ELSE /\ activities' = Append(activities, created)
                        /\ UNCHANGED members
  /\ UNCHANGED <<now, tz>>

----------------------------------------------------------------------------
(* DatabaseStorage.rejectPayment *)

\* the payment row after update(payments).set({status: 'rejected', ...});
\* an undefined notes leaves the column as it is
RejectedPayment(payment, adminId, notes) ==
  [payment EXCEPT !.status = "rejected",
                  !.verifiedById = adminId,
                  !.verifiedAt = now,
                  !.notes = IF notes = NULL THEN @ ELSE notes]

\* a rejection that also takes the membership away
RejectPaymentRevoking(id, adminId, notes) ==
  IF ~HasPayment(id)
    THEN PaymentNotFound
  ELSE IF ~HasUser(adminId)
    THEN /\ result' = Thrown
         /\ UNCHANGED <<now, tz, members, payments, activities>>
  ELSE
    LET updatedPayment == RejectedPayment(payments[id], adminId, notes)
    IN  /\ Decisions < MaxDecisions
        /\ payments' = [payments EXCEPT ![id] = updatedPayment]
        /\ members' = [members EXCEPT ![updatedPayment.memberId].status = "expired"]
        /\ activities' = Append(activities,
             Activity("payment_rejected", updatedPayment.memberId, adminId))
        /\ result' = Returned("rejectPayment", updatedPayment)
        /\ UNCHANGED <<now, tz>>

RejectPayment(id, adminId, notes) ==
  IF ~HasPayment(id)
    \* no row matches: returning() is empty
    THEN PaymentNotFound
  ELSE IF ~HasUser(adminId)
    THEN /\ result' = Thrown
         /\ UNCHANGED <<now, tz, members, payments, activities>>
  ELSE
    LET updatedPayment == RejectedPayment(payments[id], adminId, notes)
    IN  /\ payments' = [payments EXCEPT ![id] = updatedPayment]
        /\ IF HasMember(updatedPayment.memberId) /\ HasUser(adminId)
             THEN /\ Decisions < MaxDecisions
                  /\ activities' = Append(activities,
                       Activity("payment_rejected", updatedPayment.memberId, adminId))
             ELSE UNCHANGED activities
        /\ result' = Returned("rejectPayment", updatedPayment)
        /\ UNCHANGED <<now, tz, members>>

----------------------------------------------------------------------------
(* Inputs *)

\* member ids a caller may name: the members and 0, which names none
MemberInputs == 0 .. NumMembers

\* plan ids a caller may name: the plans and one that names none
PlanInputs == 1 .. 4

\* user ids a caller may name: the admin and one that names none
AdminInputs == {1, 2}

\* payment ids a caller may name: those that can exist and one more
PaymentIdInputs == 1 .. MaxPayments + 1

StatusInputs == {"", "pending", "verified", "rejected"}

NotesInputs == {NULL, 1}

\* how many days before now a payment may be dated (seedPayments)
SeedDaysAgo == 5

PaymentDataInputs ==
  [memberId     : MemberInputs,
   planId       : PlanInputs,
   status       : StatusInputs,
   verifiedById : {NULL} \cup AdminInputs,
   paymentDate  : {now, now - SeedDaysAgo * TicksPerDay}]

\* the calls on the storage object; no request to the yape route is handled
Next ==
  \/ Tick /\ UNCHANGED <<yape, calls, mem>>
  \/ GetMembers /\ UNCHANGED <<yape, calls, mem>>
  \/ \E paymentData \in PaymentDataInputs :
       CreatePayment(paymentData) /\ UNCHANGED <<yape, calls, mem>>
  \/ \E id \in PaymentIdInputs, adminId \in AdminInputs :
       VerifyPayment(id, adminId) /\ UNCHANGED <<yape, calls, mem>>
  \/ \E id \in PaymentIdInputs, adminId \in AdminInputs, notes \in NotesInputs :
       RejectPayment(id, adminId, notes) /\ UNCHANGED <<yape, calls, mem>>

Spec == Init /\ [][Next]_vars

----------------------------------------------------------------------------
(* The routes that create payments *)

\* a response sent without a value of the storage: its HTTP status
Answered(code) == [op |-> "", status |-> code, value |-> NULL]

\* the HTTP status a route answers with after a storage call
HttpStatus(r) ==
  CASE r.status = "ok"        -> "201"
    [] r.status = "error"     -> "500"
    [] OTHER                  -> r.status

\* !x for a number of the request body (an absent field is written NULL)
Falsy(x) == x \in {NULL, 0}

AmountInputs == {NULL, 0, 600}

\* an absent payment method is written ""
PaymentMethodInputs == {"", "yape"}

\* req.body of POST /api/payments: a member id that is absent, names the
\* first member or names a member the database did not start with, a plan
\* id that is absent or names the first plan, a status that is absent or
\* pending
BodyInputs ==
  [memberId      : {NULL, 1, NumMembers + 1},
   planId        : {NULL, 1},
   amount        : AmountInputs,
   paymentMethod : PaymentMethodInputs,
   status        : {"", "pending"},
   verifiedById  : {NULL}]

\* the validation of POST /api/payments
Incomplete(body) ==
  \/ Falsy(body.memberId)
  \/ Falsy(body.planId)
  \/ Falsy(body.amount)
  \/ body.paymentMethod = ""

\* {...paymentData, paymentDate}
PostedPaymentData(body) ==
  [memberId     |-> body.memberId,
   planId       |-> body.planId,
   status       |-> body.status,
   verifiedById |-> body.verifiedById,
   paymentDate  |-> now]

\* POST /api/payments
PostPayments(authenticated, body) ==
  IF ~authenticated
    THEN /\ result' = Answered("401")
         /\ UNCHANGED <<now, tz, members, payments, activities>>
  ELSE IF Incomplete(body)
    THEN /\ result' = Answered("400")
         /\ UNCHANGED <<now, tz, members, payments, activities>>
  ELSE CreatePayment(PostedPaymentData(body))

\* req.user: nobody is logged in, or one of the users is
SessionInputs == {NULL} \cup DOMAIN users

\* the middleware isAdmin lets the request pass
IsAdmin(user) == user # NULL /\ users[user].role = "admin"

\* the HTTP status the verify and reject routes answer with after their
\* storage call
DecisionHttpStatus(r) ==
  CASE r.status = "ok"        -> "200"
    [] r.status = "undefined" -> "404"
    [] r.status = "error"     -> "500"
    [] OTHER                  -> r.status

\* POST /api/payments/:id/verify
PostPaymentVerify(user, id) ==
  IF user = NULL
    THEN /\ result' = Answered("401")
         /\ UNCHANGED <<now, tz, members, payments, activities>>
  ELSE IF ~IsAdmin(user)
    THEN /\ result' = Answered("403")
         /\ UNCHANGED <<now, tz, members, payments, activities>>
  ELSE VerifyPayment(id, user)

\* POST /api/payments/:id/reject
PostPaymentReject(user, id, notes) ==
  IF user = NULL
    THEN /\ result' = Answered("401")
         /\ UNCHANGED <<now, tz, members, payments, activities>>
  ELSE IF ~IsAdmin(user)
    THEN /\ result' = Answered("403")
         /\ UNCHANGED <<now, tz, members, payments, activities>>
  ELSE RejectPayment(id, user, notes)

\* how many members the yape route may add
MaxNewMembers == 1

\* the member row createMember inserts for the yape route
YapeMember(planId) == [status |-> "pending", planId |-> planId, expiryDate |-> NULL]

\* POST /api/yape-payment/verify, up to its createPayment call: the plan is
\* looked up, then the member by email (an email is written as the id of the
\* member that has it, 0 if none has), who is created if absent
YapeLookup(planId, email, memberData) ==
  LET newId == Cardinality(DOMAIN members) + 1
  IN  /\ yape.pc = "idle"
      /\ IF Falsy(planId)
           THEN /\ result' = Answered("400")
                /\ UNCHANGED <<members, activities, yape>>
         ELSE IF ~HasPlan(planId)
           THEN /\ result' = Answered("404")
                /\ UNCHANGED <<members, activities, yape>>
         ELSE IF HasMember(email)
           THEN /\ yape' = [pc |-> "createPayment", memberId |-> email,
                            planId |-> planId]
                /\ UNCHANGED <<members, activities, result>>
         ELSE IF memberData
           THEN /\ newId <= NumMembers + MaxNewMembers
                /\ members' = members @@ (newId :> YapeMember(planId))
                /\ activities' = Append(activities,
                     Activity("member_created", newId, NULL))
                /\ yape' = [pc |-> "createPayment", memberId |-> newId,
                            planId |-> planId]
                /\ UNCHANGED result
         \* createMember threw: the route goes on without a member
         ELSE /\ yape' = [pc |-> "createPayment", memberId |-> NULL,
                          planId |-> planId]
              /\ UNCHANGED <<members, activities, result>>
      /\ UNCHANGED <<now, tz, payments>>

\* payment data that leave the status out
YapePaymentDataNoStatus ==
  [memberId     |-> IF yape.memberId = NULL THEN 0 ELSE yape.memberId,
   planId       |-> yape.planId,
   status       |-> "",
   verifiedById |-> NULL,
   paymentDate  |-> now]

\* the payment data the yape route passes to createPayment
YapePaymentData ==
  [memberId     |-> IF yape.memberId = NULL THEN 0 ELSE yape.memberId,
   planId       |-> yape.planId,
   status       |-> "pending",
   verifiedById |-> NULL,
   paymentDate  |-> now]

\* the createPayment call of the yape route; if it throws the route answers 500
YapeCreatePayment ==
  /\ yape.pc = "createPayment"
  /\ CreatePayment(YapePaymentData)
  /\ yape' = IF result'.status = "error"
               THEN YapeIdle
               ELSE [yape EXCEPT !.pc = "createActivity"]

\* the createActivity call of the yape route and its 201 response
YapeCreateActivity ==
  /\ yape.pc = "createActivity"
  /\ activities' = Append(activities,
       Activity("yape_payment_received", yape.memberId, NULL))
  /\ result' = Answered("201")
  /\ yape' = YapeIdle
  /\ UNCHANGED <<now, tz, members, payments>>

\* member emails a caller may name: the members' and one no member has
EmailInputs == 0 .. NumMembers

\* the server driven through its routes
ApiNext ==
  \/ Tick /\ UNCHANGED <<yape, calls, mem>>
  \/ GetMembers /\ UNCHANGED <<yape, calls, mem>>
  \/ \E authenticated \in BOOLEAN, body \in BodyInputs :
       PostPayments(authenticated, body) /\ UNCHANGED <<yape, calls, mem>>
  \/ \E planId \in {NULL} \cup PlanInputs, email \in EmailInputs,
        memberData \in BOOLEAN :
       YapeLookup(planId, email, memberData) /\ UNCHANGED <<calls, mem>>
  \/ YapeCreatePayment /\ UNCHANGED <<calls, mem>>
  \/ YapeCreateActivity /\ UNCHANGED <<calls, mem>>

ApiSpec == Init /\ [][ApiNext]_vars

\* the bodies of the POST /api/payments requests made next to decisions:
\* those that carry an amount and a payment method
DecisionBodyInputs ==
  {body \in BodyInputs : body.amount = 600 /\ body.paymentMethod = "yape"}

\* the server driven through the routes that create and decide payments
DecisionNext ==
  \/ Tick /\ UNCHANGED <<yape, calls, mem>>
  \/ GetMembers /\ UNCHANGED <<yape, calls, mem>>
  \/ \E authenticated \in BOOLEAN, body \in DecisionBodyInputs :
       PostPayments(authenticated, body) /\ UNCHANGED <<yape, calls, mem>>
  \/ \E user \in SessionInputs, id \in PaymentIdInputs :
       PostPaymentVerify(user, id) /\ UNCHANGED <<yape, calls, mem>>
  \/ \E user \in SessionInputs, id \in PaymentIdInputs, notes \in NotesInputs :
       PostPaymentReject(user, id, notes) /\ UNCHANGED <<yape, calls, mem>>

DecisionSpec == Init /\ [][DecisionNext]_vars

----------------------------------------------------------------------------
(* The storage over a database that may fail: the statement that updates   *)
(* the member throws.  Neither handler opens a transaction or catches, so  *)
(* the statements already executed stay and the exception leaves the       *)
(* method.                                                                 *)

\* a failure that undoes the update of the payment
VerifyPaymentRolledBack(id, adminId) ==
  /\ HasPayment(id) /\ HasUser(adminId)
  /\ HasMember(payments[id].memberId) /\ HasPlan(payments[id].planId)
  /\ result' = Thrown
  /\ UNCHANGED <<now, tz, members, payments, activities>>

\* verifyPayment when update(members) of its updateMember call throws: the
\* payment is updated and payment_verified recorded, nothing else
VerifyPaymentStoreFails(id, adminId) ==
  /\ HasPayment(id) /\ HasUser(adminId)
  /\ HasMember(payments[id].memberId) /\ HasPlan(payments[id].planId)
  /\ Decisions < MaxDecisions
  /\ payments' = [payments EXCEPT ![id] = VerifiedPayment(payments[id], adminId)]
  /\ activities' = Append(activities,
       Activity("payment_verified", payments[id].memberId, adminId))
  /\ result' = Thrown
  /\ UNCHANGED <<now, tz, members>>

\* createPayment of a verified payment when its update(members) throws: the
\* payment is inserted and payment_created recorded, nothing else
CreatePaymentStoreFails(paymentData) ==
  LET newPayment == paymentWithStatus(paymentData)
  IN  /\ Len(payments) < MaxPayments
      /\ PaymentReferencesHold(newPayment)
      /\ newPayment.status = "verified"
      /\ payments' = Append(payments, newPayment)
      /\ activities' = Append(activities,
           Activity("payment_created", newPayment.memberId, NULL))
      /\ result' = Thrown
      /\ UNCHANGED <<now, tz, members>>

\* the calls on the storage object, each of which may fail at its member
\* update
FaultNext ==
  \/ Tick /\ UNCHANGED <<yape, calls, mem>>
  \/ GetMembers /\ UNCHANGED <<yape, calls, mem>>
  \/ \E paymentData \in PaymentDataInputs :
       CreatePayment(paymentData) /\ UNCHANGED <<yape, calls, mem>>
  \/ \E paymentData \in PaymentDataInputs :
       CreatePaymentStoreFails(paymentData) /\ UNCHANGED <<yape, calls, mem>>
  \/ \E id \in PaymentIdInputs, adminId \in AdminInputs :
       VerifyPayment(id, adminId) /\ UNCHANGED <<yape, calls, mem>>
  \/ \E id \in PaymentIdInputs, adminId \in AdminInputs :
       VerifyPaymentStoreFails(id, adminId) /\ UNCHANGED <<yape, calls, mem>>
  \/ \E id \in PaymentIdInputs, adminId \in AdminInputs, notes \in NotesInputs :
       RejectPayment(id, adminId, notes) /\ UNCHANGED <<yape, calls, mem>>

FaultSpec == Init /\ [][FaultNext]_vars

----------------------------------------------------------------------------
(* The handlers run statement by statement.  getMembers and verifyPayment  *)
(* are async functions without a transaction or a lock: between two of     *)
(* their awaited database statements the statements of other calls may     *)
(* run.  A step is one awaited statement together with the synchronous     *)
(* code that follows it.                                                   *)

\* the sweep in flight, and the verifyPayment call in flight in a slot
sweep == calls.sweep

verify(c) == calls.verify[c]

\* the verifyPayment calls in flight that have not recorded payment_verified
Unrecorded ==
  Cardinality({c \in CallIds :
     verify(c).pc \in {"updatePayment", "lookups", "createActivity"}})

\* getMembers, select().from(members) and the filter: the rows are kept as
\* read and the members to update are chosen from them
SweepSelect ==
  /\ sweep.pc = "idle"
  /\ IF membersToUpdate = {}
       THEN /\ result' = Returned("getMembers", members)
            /\ UNCHANGED calls
       ELSE /\ \E order \in Orders(membersToUpdate) :
                 calls' = [calls EXCEPT !.sweep =
                   [pc |-> "update", membersList |-> members,
                    membersToUpdate |-> order]]
            /\ UNCHANGED result
  /\ UNCHANGED <<now, tz, members, payments, activities>>

\* an update that is applied only to a row that is still as it was read
SweepUpdateIfUnchanged ==
  LET id == Head(sweep.membersToUpdate)
  IN  /\ sweep.pc = "update"
      /\ members' = IF members[id] = sweep.membersList[id]
                      THEN [members EXCEPT ![id].status = "expired"]
                      ELSE members
      /\ calls' = [calls EXCEPT !.sweep.pc = "createActivity"]
      /\ UNCHANGED <<now, tz, payments, activities, result>>

\* getMembers, update(members).set({status: 'expired'}).where(id) for the
\* next member to update
SweepUpdate ==
  LET id == Head(sweep.membersToUpdate)
  IN  /\ sweep.pc = "update"
      /\ members' = [members EXCEPT ![id].status = "expired"]
      /\ calls' = [calls EXCEPT !.sweep.pc = "createActivity"]
      /\ UNCHANGED <<now, tz, payments, activities, result>>

\* getMembers, createActivity(membership_expired) for that member; the row
\* of the list is patched, and after the last member the list is returned
SweepRecordExpired ==
  LET id      == Head(sweep.membersToUpdate)
      patched == [sweep.membersList EXCEPT ![id].status = "expired"]
      rest    == Tail(sweep.membersToUpdate)
  IN  /\ sweep.pc = "createActivity"
      /\ activities' = Append(activities, Activity("membership_expired", id, NULL))
      /\ IF rest = <<>>
           THEN /\ result' = Returned("getMembers", patched)
                /\ calls' = [calls EXCEPT !.sweep = SweepIdle]
           ELSE /\ calls' = [calls EXCEPT !.sweep =
                     [pc |-> "update", membersList |-> patched,
                      membersToUpdate |-> rest]]
                /\ UNCHANGED result
      /\ UNCHANGED <<now, tz, members, payments>>

\* verifyPayment, getPayment(id): a call starts in the first unused slot
VerifyGetPayment(c, id, adminId) ==
  /\ verify(c).pc = "idle"
  /\ \A d \in CallIds : d < c => verify(d).pc # "idle"
  /\ IF ~HasPayment(id)
       THEN /\ result' = ReturnedUndefined
            /\ calls' = [calls EXCEPT !.verify[c] = VerifyDone]
       ELSE /\ Decisions + Unrecorded < MaxDecisions
            /\ calls' = [calls EXCEPT !.verify[c] =
                 [VerifyIdle EXCEPT !.pc = "updatePayment",
                                    !.id = id,
                                    !.adminId = adminId,
                                    !.memberId = payments[id].memberId,
                                    !.planId = payments[id].planId]]
            /\ UNCHANGED result
  /\ UNCHANGED <<now, tz, members, payments, activities>>

\* verifyPayment, update(payments).set({status: 'verified', ...}).where(id)
VerifyUpdatePayment(c) ==
  /\ verify(c).pc = "updatePayment"
  /\ IF ~HasUser(verify(c).adminId)
       \* verified_by_id references users.id: the update is rejected
       THEN /\ result' = Thrown
            /\ calls' = [calls EXCEPT !.verify[c] = VerifyDone]
            /\ UNCHANGED payments
       ELSE /\ payments' = [payments EXCEPT ![verify(c).id] =
                 VerifiedPayment(@, verify(c).adminId)]
            /\ calls' = [calls EXCEPT !.verify[c].pc = "lookups"]
            /\ UNCHANGED result
  /\ UNCHANGED <<now, tz, members, activities>>

\* verifyPayment, getMember, getUser and getMembershipPlan: the member row
\* is kept as read
VerifyLookups(c) ==
  /\ verify(c).pc = "lookups"
  /\ IF /\ HasMember(verify(c).memberId)
        /\ HasUser(verify(c).adminId)
        /\ HasPlan(verify(c).planId)
       THEN /\ calls' = [calls EXCEPT
                 !.verify[c].pc = "createActivity",
                 !.verify[c].member = members[verify(c).memberId]]
            /\ UNCHANGED result
       ELSE /\ result' = Returned("verifyPayment", payments[verify(c).id])
            /\ calls' = [calls EXCEPT !.verify[c] = VerifyDone]
  /\ UNCHANGED <<now, tz, members, payments, activities>>

\* verifyPayment, createActivity(payment_verified), then the new expiry
\* date is computed from the member row read
VerifyRecordVerified(c) ==
  LET base == VerifyBaseDate(verify(c).member)
  IN  /\ verify(c).pc = "createActivity"
      /\ activities' = Append(activities,
           Activity("payment_verified", verify(c).memberId, verify(c).adminId))
      /\ calls' = [calls EXCEPT
           !.verify[c].pc = "updateMember",
           !.verify[c].base = base,
           !.verify[c].expiryDate =
              VerifyExpiry(base, membershipPlans[verify(c).planId])]
      /\ UNCHANGED <<now, tz, members, payments, result>>

\* verifyPayment, the update(members) of its updateMember call
VerifyUpdateMember(c) ==
  /\ verify(c).pc = "updateMember"
  /\ members' = UpdatedMembers(verify(c).memberId, "active", verify(c).planId,
                               ToDateColumn(verify(c).expiryDate))
  /\ calls' = [calls EXCEPT !.verify[c].pc = "memberUpdated"]
  /\ UNCHANGED <<now, tz, payments, activities, result>>

\* verifyPayment, the createActivity(member_updated) of its updateMember call
VerifyRecordUpdated(c) ==
  /\ verify(c).pc = "memberUpdated"
  /\ activities' = activities \o UpdateMemberActivities(verify(c).memberId)
  /\ calls' = [calls EXCEPT !.verify[c].pc = "activated"]
  /\ UNCHANGED <<now, tz, members, payments, result>>

\* verifyPayment, createActivity(membership_activated) and the return of
\* the payment row
VerifyRecordActivated(c) ==
  /\ verify(c).pc = "activated"
  /\ activities' = Append(activities,
       Activity("membership_activated", verify(c).memberId, verify(c).adminId))
  /\ result' = Returned("verifyPayment", payments[verify(c).id])
  /\ calls' = [calls EXCEPT !.verify[c] = VerifyDone]
  /\ UNCHANGED <<now, tz, members, payments>>

\* the payments the calls in flight are about: pending payments of the
\* first member for the first or the second plan, dated now
RacePaymentDataInputs ==
  {paymentData \in PaymentDataInputs :
     /\ paymentData.memberId = 1
     /\ paymentData.planId \in {1, 2}
     /\ paymentData.status = "pending"
     /\ paymentData.verifiedById = NULL
     /\ paymentData.paymentDate = now}

\* the storage with its sweeps and verifications interleaved
RaceNext ==
  \/ Tick /\ UNCHANGED <<yape, calls, mem>>
  \/ \E paymentData \in RacePaymentDataInputs :
       CreatePayment(paymentData) /\ UNCHANGED <<yape, calls, mem>>
  \/ SweepSelect /\ UNCHANGED <<yape, mem>>
  \/ SweepUpdate /\ UNCHANGED <<yape, mem>>
  \/ SweepRecordExpired /\ UNCHANGED <<yape, mem>>
  \/ \E c \in CallIds, id \in PaymentIdInputs, adminId \in AdminInputs :
       VerifyGetPayment(c, id, adminId) /\ UNCHANGED <<yape, mem>>
  \/ \E c \in CallIds : VerifyUpdatePayment(c) /\ UNCHANGED <<yape, mem>>
  \/ \E c \in CallIds : VerifyLookups(c) /\ UNCHANGED <<yape, mem>>
  \/ \E c \in CallIds : VerifyRecordVerified(c) /\ UNCHANGED <<yape, mem>>
  \/ \E c \in CallIds : VerifyUpdateMember(c) /\ UNCHANGED <<yape, mem>>
  \/ \E c \in CallIds : VerifyRecordUpdated(c) /\ UNCHANGED <<yape, mem>>
  \/ \E c \in CallIds : VerifyRecordActivated(c) /\ UNCHANGED <<yape, mem>>

RaceSpec == Init /\ [][RaceNext]_vars

----------------------------------------------------------------------------
(* MemStorage, the in-memory implementation of the same interface, given   *)
(* the calls the DatabaseStorage is given.  Its maps are the fields of     *)
(* `mem`; it has the same users and plans.                                 *)

\* getMember(id), getPayment(id) of MemStorage
MemHasMember(id) == id \in DOMAIN mem.members

MemHasPayment(id) == id \in 1 .. Len(mem.payments)

\* the decisions MemStorage has recorded so far
MemDecisions ==
  Cardinality({i \in 1 .. Len(mem.activities) :
     mem.activities[i].activityType \in {"payment_verified", "payment_rejected"}})

\* MemStorage.getMembers: the members are visited in the order of the map;
\* an active member is expired if its expiry date is before the current time
MemIsOverdue(member) ==
  /\ member.status = "active"
  /\ member.expiryDate # NULL
  /\ member.expiryDate < now

MemGetMembers ==
  LET expired == {id \in DOMAIN mem.members : MemIsOverdue(mem.members[id])}
      order   == CHOOSE o \in Orders(expired) :
                   \A i, j \in 1 .. Cardinality(expired) : i < j => o[i] < o[j]
  IN  [mem EXCEPT
         !.members = [id \in DOMAIN @ |->
            IF id \in expired THEN [@[id] EXCEPT !.status = "expired"] ELSE @[id]],
         !.activities = @ \o
            [i \in 1 .. Cardinality(expired) |->
               Activity("membership_expired", order[i], NULL)]]

\* MemStorage.createPayment: the payment data are stored as they are given
MemCreatePayment(paymentData) ==
  LET payment ==
        [id           |-> Len(mem.payments) + 1,
         memberId     |-> paymentData.memberId,
         planId       |-> paymentData.planId,
         paymentDate  |-> paymentData.paymentDate,
         status       |-> paymentData.status,
         notes        |-> NULL,
         verifiedAt   |-> NULL,
         verifiedById |-> paymentData.verifiedById]
  IN  [mem EXCEPT
         !.payments = Append(@, payment),
         !.activities =
            IF MemHasMember(payment.memberId) /\ HasPlan(payment.planId)
              THEN Append(@, Activity("payment_created", payment.memberId, NULL))
              ELSE @]

\* the switch on plan.durationType of MemStorage.verifyPayment
MemVerifyExpiry(base, plan) ==
  CASE plan.durationType = "day"   -> SetDate(base, plan.duration, tz)
    [] plan.durationType = "week"  -> SetDate(base, plan.duration * 7, tz)
    [] plan.durationType = "month" -> SetMonth(base, plan.duration, tz)
    [] plan.durationType = "year"  -> SetFullYear(base, plan.duration, tz)
    [] OTHER                       -> base

\* MemStorage.verifyPayment
MemVerifyPayment(id, adminId) ==
  IF ~MemHasPayment(id)
    THEN mem
    ELSE
      LET payment     == mem.payments[id]
          found       == /\ MemHasMember(payment.memberId)
                         /\ HasUser(adminId)
                         /\ HasPlan(payment.planId)
          member      == mem.members[payment.memberId]
          plan        == membershipPlans[payment.planId]
          currentDate == now
          expiryDate  == IF member.expiryDate # NULL
                           THEN member.expiryDate ELSE currentDate
          base        == IF expiryDate < currentDate THEN currentDate ELSE expiryDate
      IN  [mem EXCEPT
             !.payments[id] = [@ EXCEPT !.status = "verified",
                                        !.verifiedById = adminId,
                                        !.verifiedAt = now],
             !.members =
                IF found
                  THEN [@ EXCEPT ![payment.memberId] =
                          [@ EXCEPT !.expiryDate = MemVerifyExpiry(base, plan),
                                    !.status = "active"]]
                  ELSE @,
             !.activities =
                IF found
                  THEN @ \o <<Activity("payment_verified", payment.memberId, adminId),
                              Activity("member_updated", payment.memberId, NULL)>>
                  ELSE @]

\* MemStorage.rejectPayment
MemRejectPayment(id, adminId, notes) ==
  IF ~MemHasPayment(id)
    THEN mem
    ELSE
      LET payment == mem.payments[id]
      IN  [mem EXCEPT
             !.payments[id] = [@ EXCEPT !.status = "rejected",
                                        !.verifiedById = adminId,
                                        !.verifiedAt = now,
                                        !.notes = IF notes = NULL THEN @ ELSE notes],
             !.activities =
                IF MemHasMember(payment.memberId) /\ HasUser(adminId)
                  THEN Append(@, Activity("payment_rejected", payment.memberId, adminId))
                  ELSE @]

\* the payment data both implementations are given: no verifier, dated now
PairPaymentDataInputs ==
  {paymentData \in PaymentDataInputs :
     paymentData.verifiedById = NULL /\ paymentData.paymentDate = now}

\* one call, made on the DatabaseStorage and on the MemStorage
PairGetMembers ==
  /\ GetMembers
  /\ mem' = MemGetMembers
  /\ UNCHANGED <<yape, calls>>

PairCreatePayment(paymentData) ==
  /\ CreatePayment(paymentData)
  /\ Len(mem.payments) < MaxPayments
  /\ mem' = MemCreatePayment(paymentData)
  /\ UNCHANGED <<yape, calls>>

PairVerifyPayment(id, adminId) ==
  /\ VerifyPayment(id, adminId)
  /\ MemDecisions < MaxDecisions
  /\ mem' = MemVerifyPayment(id, adminId)
  /\ UNCHANGED <<yape, calls>>

PairRejectPayment(id, adminId, notes) ==
  /\ RejectPayment(id, adminId, notes)
  /\ MemDecisions < MaxDecisions
  /\ mem' = MemRejectPayment(id, adminId, notes)
  /\ UNCHANGED <<yape, calls>>

PairNext ==
  \/ Tick /\ UNCHANGED <<yape, calls, mem>>
  \/ PairGetMembers
  \/ \E paymentData \in PairPaymentDataInputs : PairCreatePayment(paymentData)
  \/ \E id \in PaymentIdInputs, adminId \in AdminInputs :
       PairVerifyPayment(id, adminId)
  \/ \E id \in PaymentIdInputs, adminId \in AdminInputs, notes \in NotesInputs :
       PairRejectPayment(id, adminId, notes)

\* a MemStorage that holds the members the database holds
PairInit ==
  /\ InitDatabase
  /\ mem = [members    |-> [id \in MemberIds |-> MemMember(members[id])],
            payments   |-> <<>>,
            activities |-> <<>>]

PairSpec == PairInit /\ [][PairNext]_vars

----------------------------------------------------------------------------
(* Notions the properties below are stated in *)

\* the server's calendar day
Today == LocalDay(now, tz)

\* a storage call with these arguments runs the membership extension
VerifyExtends(id, adminId) ==
  /\ HasPayment(id)
  /\ HasUser(adminId)
  /\ HasMember(payments[id].memberId)
  /\ HasPlan(payments[id].planId)

\* the payment data name an existing member, plan and (if any) verifier
ValidPaymentData(paymentData) ==
  /\ HasMember(paymentData.memberId)
  /\ HasPlan(paymentData.planId)
  /\ paymentData.verifiedById = NULL \/ HasUser(paymentData.verifiedById)

\* the activities appended by a step
Appended == SubSeq(activities', Len(activities) + 1, Len(activities'))

\* how many of the appended activities have this type and member
AppendedFor(type, memberId) ==
  Cardinality({i \in 1 .. Len(Appended) :
     Appended[i].activityType = type /\ Appended[i].memberId = memberId})

\* a calendar day plus one plan duration, as the plan's durationType says
PlusPlanDuration(day, plan) ==
  LET c == CivilFromDays(day)
  IN  CASE plan.durationType \in {"daily", "day"} -> day + plan.duration
        [] plan.durationType \in {"weekly", "week"} -> day + plan.duration * 7
        [] plan.durationType \in {"monthly", "month"} ->
             MakeDay(c.y, c.m - 1 + plan.duration, c.d)
        [] plan.durationType \in {"yearly", "year", "annual"} ->
             MakeDay(c.y + plan.duration, c.m - 1, c.d)
        [] OTHER -> day + plan.duration

\* the duration the extension is meant to use: the plan's, or 1 if that is
\* not positive
PlanDuration(plan) == IF plan.duration > 0 THEN plan.duration ELSE 1

\* a date extended by a plan as the durationType says, in every spelling
ExtendedDate(base, plan) ==
  CASE plan.durationType \in {"daily", "day"} ->
         SetDate(base, PlanDuration(plan), tz)
    [] plan.durationType \in {"weekly", "week"} ->
         SetDate(base, PlanDuration(plan) * 7, tz)
    [] plan.durationType \in {"monthly", "month"} ->
         SetMonth(base, PlanDuration(plan), tz)
    [] plan.durationType \in {"yearly", "year", "annual"} ->
         SetFullYear(base, PlanDuration(plan), tz)
    [] OTHER -> SetDate(base, PlanDuration(plan), tz)

\* createPayment is called with these data, which name a member, a plan and
\* a verifier that exist, and stores a verified payment
CreatesVerified(paymentData) ==
  /\ ValidPaymentData(paymentData)
  /\ paymentData.status \in {"", "verified"}
  /\ CreatePayment(paymentData)

\* the payment data of the createPayment calls a step may be
CreateInputs ==
  IF result'.op = "createPayment" THEN PaymentDataInputs ELSE {}

----------------------------------------------------------------------------
(* C1: once a payment is verified or rejected, no operation changes its    *)
(* status again.                                                           *)

C1_StatusTerminal ==
  [][\A id \in 1 .. Len(payments) :
       payments[id].status \in {"verified", "rejected"}
         => payments'[id].status = payments[id].status]_vars

(* C2: one getMembers call expires exactly the active members whose expiry *)
(* date is a calendar day before today, and appends one                    *)
(* membership_expired activity for each of them and none for any other     *)
(* member.                                                                 *)

C2_SweepExpiresExactlyOverdue ==
  [][GetMembers =>
       \A id \in DOMAIN members :
         IF /\ members[id].status = "active"
            /\ members[id].expiryDate # NULL
            /\ members[id].expiryDate < Today
           THEN /\ members'[id].status = "expired"
                /\ AppendedFor("membership_expired", id) = 1
           ELSE AppendedFor("membership_expired", id) = 0]_vars

(* C3: after getMembers, neither the returned list nor the members table   *)
(* has an active member whose expiry date is a calendar day before today,  *)
(* and a second getMembers has nothing to expire.                          *)

C3_ReturnedListIsSwept ==
  [][GetMembers =>
       /\ \A id \in DOMAIN members' :
            /\ ~(/\ result'.value[id].status = "active"
                 /\ result'.value[id].expiryDate # NULL
                 /\ result'.value[id].expiryDate < Today)
            /\ ~(/\ members'[id].status = "active"
                 /\ members'[id].expiryDate # NULL
                 /\ members'[id].expiryDate < Today)
       /\ result'.value = members'
       /\ membersToUpdate' = {}]_vars

\* getMembers has returned a list in which a member was expired
C3_Witness ==
  /\ result.op = "getMembers"
  /\ \E id \in DOMAIN members :
       /\ result.value[id].status = "expired"
       /\ \E i \in 1 .. Len(activities) :
            /\ activities[i].activityType = "membership_expired"
            /\ activities[i].memberId = id

(* C4: getMembers leaves active every member whose expiry date is today    *)
(* or later, at any time of day; it expires only members whose expiry date *)
(* is a calendar day before today.                                         *)

C4_SweepComparesDatesOnly ==
  [][GetMembers =>
       \A id \in DOMAIN members :
         (/\ members[id].status = "active"
          /\ members[id].expiryDate # NULL
          /\ members[id].expiryDate >= Today)
           => members'[id].status = "active"]_vars

(* C5: whenever a payment becomes verified (createPayment with resolved    *)
(* status verified, or verifyPayment), the expiry date written to the      *)
(* member is strictly after the base date of the computation.              *)

C5_ExpiryAfterBaseDate ==
  [][/\ \A id \in PaymentIdInputs, adminId \in AdminInputs :
          (VerifyExtends(id, adminId) /\ VerifyPayment(id, adminId))
            => ParseDate(members'[payments[id].memberId].expiryDate)
                 > VerifyBaseDate(members[payments[id].memberId])
     /\ \A paymentData \in PaymentDataInputs :
          (/\ ValidPaymentData(paymentData)
           /\ ResolvedStatus(paymentData.status) = "verified"
           /\ CreatePayment(paymentData))
            => ParseDate(members'[paymentData.memberId].expiryDate)
                 > paymentData.paymentDate]_vars

(* C6: createPayment without a status stores a verified payment and makes  *)
(* the member active with the payment's plan and a new expiry date;        *)
(* createPayment with status pending stores a pending payment and leaves   *)
(* the members as they are.                                                *)

C6_CreateDefaultsToVerified ==
  [][\A paymentData \in IF result'.op = "createPayment"
                           THEN PaymentDataInputs ELSE {} :
       (ValidPaymentData(paymentData) /\ CreatePayment(paymentData)) =>
         /\ paymentData.status = "" =>
              /\ Len(payments') = Len(payments) + 1
              /\ payments'[Len(payments')].status = "verified"
              /\ members'[paymentData.memberId].status = "active"
              /\ members'[paymentData.memberId].planId = paymentData.planId
              /\ members'[paymentData.memberId].expiryDate # NULL
              /\ ParseDate(members'[paymentData.memberId].expiryDate)
                   > paymentData.paymentDate
              /\ AppendedFor("membership_activated", paymentData.memberId) = 1
         /\ paymentData.status = "pending" =>
              /\ Len(payments') = Len(payments) + 1
              /\ payments'[Len(payments')].status = "pending"
              /\ members' = members
              /\ AppendedFor("membership_activated", paymentData.memberId) = 0]_vars

\* createPayment has returned a verified payment whose member it activated
C6_Witness ==
  /\ result.op = "createPayment"
  /\ result.status = "ok"
  /\ result.value.status = "verified"
  /\ members[result.value.memberId].status = "active"
  /\ members[result.value.memberId].planId = result.value.planId

(* C7: rejectPayment leaves every member's status, expiry date and plan    *)
(* as they were, whatever the payment id, admin id and notes.              *)

C7_RejectLeavesMembers ==
  [][\A id \in PaymentIdInputs, adminId \in AdminInputs, notes \in NotesInputs :
       RejectPayment(id, adminId, notes) => members' = members]_vars

\* rejectPayment has rejected a payment of a member who is active
C7_Witness ==
  /\ result.op = "rejectPayment"
  /\ result.status = "ok"
  /\ result.value.status = "rejected"
  /\ members[result.value.memberId].status = "active"
  /\ members[result.value.memberId].expiryDate # NULL

(* C8: a second verifyPayment on the payment just verified extends the     *)
(* member's expiry date by one further plan duration and records a second  *)
(* membership_activated activity.                                          *)

C8_SecondVerifyStacks ==
  [][\A id \in PaymentIdInputs, adminId \in AdminInputs :
       (/\ result.op = "verifyPayment"
        /\ result.status = "ok"
        /\ result.value.id = id
        /\ VerifyExtends(id, adminId)
        /\ VerifyPayment(id, adminId))
         => /\ members'[payments[id].memberId].expiryDate
                 = PlusPlanDuration(members[payments[id].memberId].expiryDate,
                                    membershipPlans[payments[id].planId])
            /\ Recorded("membership_activated")' >= 2]_vars

(* C9: verifyPayment and rejectPayment on a payment id that does not exist *)
(* return undefined and leave the payments, the members and the activity   *)
(* log as they were.                                                       *)

C9_AbsentPaymentIsNotFound ==
  [][\A id \in PaymentIdInputs, adminId \in AdminInputs :
       ~HasPayment(id) =>
         /\ VerifyPayment(id, adminId) =>
              /\ result'.status = "undefined"
              /\ UNCHANGED <<payments, members, activities>>
         /\ \A notes \in NotesInputs :
              RejectPayment(id, adminId, notes) =>
                /\ result'.status = "undefined"
                /\ UNCHANGED <<payments, members, activities>>]_vars

\* a payment that does not exist was asked to be verified or rejected,
\* after some payment was created
C9_Witness ==
  /\ result.status = "undefined"
  /\ Len(payments) > 0

(* C10: verifyPayment of a payment whose member, plan or verifying admin   *)
(* does not exist, and createPayment naming a member or plan that does not *)
(* exist, change no payment, no member and no activity.                    *)

C11_ActiveHasFutureExpiry ==
  [][\A id \in DOMAIN members :
       (members'[id] # members[id] /\ members'[id].status = "active")
         => /\ members'[id].expiryDate # NULL
            /\ ParseDate(members'[id].expiryDate) > now]_vars

(* C12: POST /api/payments answers a request that lacks memberId, planId,  *)
(* amount or paymentMethod with 400 and changes no payment, no member and  *)
(* no activity; it never answers 400 to a request that carries all four.   *)

C12_ValidationBeforeMutation ==
  [][\A body \in BodyInputs :
       PostPayments(TRUE, body) =>
         IF \/ body.memberId = NULL
            \/ body.planId = NULL
            \/ body.amount = NULL
            \/ body.paymentMethod = ""
           THEN /\ HttpStatus(result') = "400"
                /\ UNCHANGED <<payments, members, activities>>
           ELSE HttpStatus(result') # "400"]_vars

(* C13: no step of a POST /api/yape-payment/verify request makes a member  *)
(* active, changes a member's expiry date or appends a                     *)
(* membership_activated activity, and the payment the request creates is   *)
(* pending.                                                                *)

C13_YapeCreatesPending ==
  [][(\/ \E planId \in {NULL} \cup PlanInputs, email \in EmailInputs,
           memberData \in BOOLEAN : YapeLookup(planId, email, memberData)
      \/ YapeCreatePayment
      \/ YapeCreateActivity)
       => /\ \A id \in DOMAIN members' :
               IF id \in DOMAIN members
                 THEN /\ members'[id].status = "active"
                           => members[id].status = "active"
                      /\ members'[id].expiryDate = members[id].expiryDate
                 ELSE /\ members'[id].status # "active"
                      /\ members'[id].expiryDate = NULL
          /\ Recorded("membership_activated")' = Recorded("membership_activated")
          /\ \A id \in 1 .. Len(payments') :
               id > Len(payments) => payments'[id].status = "pending"]_vars

\* the yape route has stored its payment for a member it created
C13_Witness ==
  /\ yape.pc = "createActivity"
  /\ Len(payments) > 0
  /\ payments[Len(payments)].status = "pending"
  /\ payments[Len(payments)].memberId > NumMembers
  /\ members[payments[Len(payments)].memberId].status = "pending"

(* C14: for the plan {duration: 1, durationType: 'monthly'} and the base   *)
(* date 2024-01-15, verifyPayment computes the expiry date 2024-02-15 and  *)
(* createPayment, from the payment date 2024-01-15, 2024-02-16.            *)

C14_MonthlyExample ==
  \A timeOfDay \in 0 .. TicksPerDay - 1 :
    LET anchor == DaysFromCivil(2024, 1, 15) * TicksPerDay + timeOfDay
        plan   == [id |-> 1, duration |-> 1, durationType |-> "monthly"]
    IN  /\ ToDateColumn(VerifyExpiry(anchor, plan)) = DaysFromCivil(2024, 2, 15)
        /\ ToDateColumn(CreateExpiry(anchor, plan)) = DaysFromCivil(2024, 2, 16)

(* C15: verifyPayment writes the base date extended by the plan as its     *)
(* durationType says, in every spelling: days, weeks, calendar months or   *)
(* calendar years, and days for any other durationType.                    *)

C15_VerifyAddsByDurationType ==
  [][\A id \in PaymentIdInputs, adminId \in AdminInputs :
       (VerifyExtends(id, adminId) /\ VerifyPayment(id, adminId))
         => members'[payments[id].memberId].expiryDate
              = ToDateColumn(ExtendedDate(
                  VerifyBaseDate(members[payments[id].memberId]),
                  membershipPlans[payments[id].planId]))]_vars

(* C16: createPayment with verified status writes the payment date         *)
(* extended by the plan as its durationType says, in every spelling, plus  *)
(* the padding day.                                                        *)

C16_CreateAddsByDurationType ==
  [][\A paymentData \in CreateInputs :
       CreatesVerified(paymentData)
         => members'[paymentData.memberId].expiryDate
              = ToDateColumn(SetDate(
                  ExtendedDate(paymentData.paymentDate,
                               membershipPlans[paymentData.planId]),
                  1, tz))]_vars

(* C17: for a plan whose duration is zero or negative, createPayment and   *)
(* verifyPayment write the expiry date they would write for the same plan  *)
(* with duration 1, which is after the day of the base date.               *)

C17_NonPositiveDurationIsOne ==
  [][/\ \A id \in PaymentIdInputs, adminId \in AdminInputs :
          (/\ VerifyExtends(id, adminId)
           /\ membershipPlans[payments[id].planId].duration <= 0
           /\ VerifyPayment(id, adminId))
            => LET base == VerifyBaseDate(members[payments[id].memberId])
                   plan == membershipPlans[payments[id].planId]
               IN  /\ members'[payments[id].memberId].expiryDate
                        = ToDateColumn(VerifyExpiry(base,
                            [plan EXCEPT !.duration = 1]))
                   /\ members'[payments[id].memberId].expiryDate
                        > ToDateColumn(base)
     /\ \A paymentData \in CreateInputs :
          (/\ CreatesVerified(paymentData)
           /\ membershipPlans[paymentData.planId].duration <= 0)
            => LET plan == membershipPlans[paymentData.planId]
               IN  /\ members'[paymentData.memberId].expiryDate
                        = ToDateColumn(CreateExpiry(paymentData.paymentDate,
                            [plan EXCEPT !.duration = 1]))
                   /\ members'[paymentData.memberId].expiryDate
                        > ToDateColumn(paymentData.paymentDate)]_vars

(* C18: verifyPayment extends the member's expiry date if it is present    *)
(* and not in the past, and now otherwise, by the plan's duration, without *)
(* a padding day.                                                          *)

C18_VerifyBaseIsExpiryOrNow ==
  [][\A id \in PaymentIdInputs, adminId \in AdminInputs :
       (VerifyExtends(id, adminId) /\ VerifyPayment(id, adminId))
         => LET current == members[payments[id].memberId].expiryDate
                base == IF current # NULL /\ ParseDate(current) >= now
                          THEN ParseDate(current)
                          ELSE now
            IN  members'[payments[id].memberId].expiryDate
                  = ToDateColumn(ExtendedDate(base,
                      membershipPlans[payments[id].planId]))]_vars

(* C19: createPayment with verified status writes the payment date plus    *)
(* the plan's duration plus one padding day, whatever the member's expiry  *)
(* date was.                                                               *)

C19_CreateIgnoresCurrentExpiry ==
  [][\A paymentData \in CreateInputs :
       CreatesVerified(paymentData)
         => members'[paymentData.memberId].expiryDate
              = ToDateColumn(ExtendedDate(paymentData.paymentDate,
                  membershipPlans[paymentData.planId])) + 1]_vars

(* C20: after createPayment with verified status and after verifyPayment   *)
(* the member is active, has the payment's plan and has the expiry date    *)
(* the call computed, whatever its status was before.                      *)

VerifyCompleted(id, adminId) ==
  LET payment == payments[id]
      member  == members[payment.memberId]
      plan    == membershipPlans[payment.planId]
  IN  /\ payments'[id].status = "verified"
      /\ payments'[id].verifiedById = adminId
      /\ payments'[id].verifiedAt = now
      /\ members'[payment.memberId] =
           [status |-> "active", planId |-> plan.id,
            expiryDate |-> ToDateColumn(VerifyExpiry(VerifyBaseDate(member), plan))]
      /\ AppendedFor("payment_verified", payment.memberId) = 1
      /\ AppendedFor("membership_activated", payment.memberId) = 1

C22_MemberWritesAreLogged ==
  [][\A id \in DOMAIN members :
       (/\ result'.op \in {"createPayment", "verifyPayment"}
        /\ members'[id] # members[id])
         => AppendedFor("member_updated", id) >= 1]_vars

(* C23: nothing is rolled back when the database fails at the member       *)
(* update of createPayment (resolved status verified) or of verifyPayment: *)
(* the call ends with an error, the payment stays persisted as verified    *)
(* and the member is as it was before the call.                            *)

\* the payment data of the failed createPayment calls a step may be
FailedCreateInputs ==
  IF result'.status = "error" /\ Len(payments') = Len(payments) + 1
    THEN PaymentDataInputs ELSE {}

C23_NoRollback ==
  [][/\ \A id \in PaymentIdInputs, adminId \in AdminInputs :
          VerifyPaymentStoreFails(id, adminId)
            => /\ result'.status = "error"
               /\ payments'[id].status = "verified"
               /\ members' = members
     /\ \A paymentData \in FailedCreateInputs :
          CreatePaymentStoreFails(paymentData)
            => /\ result'.status = "error"
               /\ payments'[Len(payments')].status = "verified"
               /\ payments'[Len(payments')].memberId = paymentData.memberId
               /\ members' = members]_vars

\* a call has thrown and left a verified payment of a member still pending
C23_Witness ==
  /\ result.status = "error"
  /\ \E id \in 1 .. Len(payments) :
       /\ payments[id].status = "verified"
       /\ members[payments[id].memberId].status = "pending"

(* C24: a sweep that read a member as active and overdue writes status     *)
(* expired to it even if a verifyPayment has extended the member since the *)
(* read: the member ends expired with an expiry date in the future, which  *)
(* no sweep and verification run one after the other produce.              *)

\* the member is expired although its expiry date is after today
ExpiredWithFutureExpiry(id) ==
  /\ members[id].status = "expired"
  /\ members[id].expiryDate # NULL
  /\ members[id].expiryDate > Today

C24_StaleSweepWriteWins ==
  [][/\ SweepUpdate =>
          LET id == Head(sweep.membersToUpdate)
          IN  members'[id] = [members[id] EXCEPT !.status = "expired"]
     /\ \A id \in DOMAIN members :
          (~ExpiredWithFutureExpiry(id) /\ ExpiredWithFutureExpiry(id)')
            => /\ SweepUpdate
               /\ Head(sweep.membersToUpdate) = id
               /\ members[id] # sweep.membersList[id]
               /\ members[id].status = "active"]_vars

\* a sweep has returned after it expired a member that a verification had
\* extended in the meantime
C24_Witness ==
  \E id \in DOMAIN members :
    /\ ExpiredWithFutureExpiry(id)
    /\ sweep.pc = "idle"
    /\ result.op = "getMembers"
    /\ result.value[id].status = "expired"
    /\ Recorded("membership_activated") >= 1

(* C25: two verifyPayment calls on the same payment that both read the     *)
(* member before either writes it both write the member; the expiry date   *)
(* the later write leaves is the date they started from extended by one    *)
(* plan duration.                                                          *)

\* call c writes the member after call d, on the same payment, did, and
\* both had read the same member row
WritesAfterRacing(c, d) ==
  /\ c # d
  /\ verify(c).pc = "updateMember"
  /\ verify(d).pc \in {"memberUpdated", "activated"}
  /\ verify(d).id = verify(c).id
  /\ verify(d).member = verify(c).member
  /\ VerifyUpdateMember(c)

C25_RacingVerifiesExtendOnce ==
  [][\A c, d \in CallIds :
       WritesAfterRacing(c, d)
         => /\ members'[verify(c).memberId].status = "active"
            /\ members'[verify(c).memberId].expiryDate
                 = ToDateColumn(ExtendedDate(verify(c).base,
                                             membershipPlans[verify(c).planId]))]_vars

(* C26: given the same calls, MemStorage and DatabaseStorage agree on the  *)
(* status of every payment, on the status, planId and expiry date of every *)
(* member and on the types of the activities recorded.                     *)

C26_SameContract ==
  /\ Len(mem.payments) = Len(payments)
  /\ \A id \in 1 .. Len(payments) :
       mem.payments[id].status = payments[id].status
  /\ \A id \in MemberIds :
       /\ mem.members[id].status = members[id].status
       /\ mem.members[id].planId = members[id].planId
       /\ (mem.members[id].expiryDate = NULL) = (members[id].expiryDate = NULL)
       /\ members[id].expiryDate # NULL
            => ToDateColumn(mem.members[id].expiryDate) = members[id].expiryDate
  /\ Len(mem.activities) = Len(activities)
  /\ \A i \in 1 .. Len(activities) :
       mem.activities[i].activityType = activities[i].activityType

(* C27: a payment has a verifiedAt exactly when its status is verified or  *)
(* rejected, and a pending payment has neither verifiedById nor            *)
(* verifiedAt, whatever status createPayment was given and whatever        *)
(* verifications and rejections followed.                                  *)

C27_VerifiedAtIffDecided ==
  \A id \in 1 .. Len(payments) :
    /\ (payments[id].verifiedAt # NULL)
         = (payments[id].status \in {"verified", "rejected"})
    /\ payments[id].status = "pending"
         => payments[id].verifiedById = NULL /\ payments[id].verifiedAt = NULL

(* C28: a verified payment never shortens a membership: the expiry date a  *)
(* member has after createPayment with resolved status verified or after   *)
(* verifyPayment is not before the expiry date the member had.             *)

NonAdmins == {user \in DOMAIN users : users[user].role # "admin"}

\* the bodies of the POST /api/payments requests a step may be
PostedInputs ==
  IF result'.op = "createPayment" THEN DecisionBodyInputs ELSE {}

\* the step verifies no payment and activates no member
NothingGranted ==
  /\ \A id \in 1 .. Len(payments') :
       payments'[id].status = "verified"
         => id <= Len(payments) /\ payments[id].status = "verified"
  /\ \A id \in DOMAIN members :
       members'[id].status = "active" => members[id].status = "active"

C29_OnlyAdminsGrant ==
  [][/\ \A user \in NonAdmins, id \in PaymentIdInputs :
          (\/ PostPaymentVerify(user, id)
           \/ \E notes \in NotesInputs : PostPaymentReject(user, id, notes))
            => /\ DecisionHttpStatus(result') = "403"
               /\ UNCHANGED <<members, payments, activities>>
     \* POST /api/payments asks only for a logged-in user
     /\ \A body \in PostedInputs :
          PostPayments(TRUE, body) => NothingGranted]_vars

(* C30: getMembers changes no payment, no member's expiryDate or planId,   *)
(* and no member at all whose status is not active or whose expiry date is *)
(* absent.                                                                 *)

C30_SweepChangesOnlyStatus ==
  [][GetMembers =>
       /\ payments' = payments
       /\ DOMAIN members' = DOMAIN members
       /\ \A id \in DOMAIN members :
            /\ members'[id].expiryDate = members[id].expiryDate
            /\ members'[id].planId = members[id].planId
            /\ (members[id].status # "active" \/ members[id].expiryDate = NULL)
                 => members'[id] = members[id]]_vars

\* getMembers has expired a member and left a frozen member whose expiry
\* date is past as it was
C30_Witness ==
  /\ result.op = "getMembers"
  /\ \E id \in DOMAIN members :
       /\ members[id].status = "frozen"
       /\ members[id].expiryDate # NULL
       /\ members[id].expiryDate < Today
       /\ result.value[id].status = "frozen"
  /\ \E id \in DOMAIN members :
       /\ result.value[id].status = "expired"
       /\ activities # <<>>
       /\ activities[Len(activities)].activityType = "membership_expired"

====
